---- MODULE Spec2Model ----
(***************************************************************************)
(* Model of the aes_par thread pools (src/src/cpu/scoped_thread_pool.rs    *)
(* and src/src/cpu/thread_pool.rs) and of the AES-128/CTR codec            *)
(* (src/src/cpu/aes/mod.rs).                                               *)
(*                                                                         *)
(* One client thread owns the pool.  NumWorkers worker threads run the     *)
(* loop of Worker::new.  Every statement that touches shared state (the    *)
(* mpsc channel, the receiver mutex, the AtomicUsize num_tasks, the        *)
(* condition variable) is one action, so that every interleaving of the    *)
(* client and the workers is explored.                                     *)
(***************************************************************************)
EXTENDS Integers, Sequences, FiniteSets, TLC

\* ------------------------------------------------------------------ bounds
NumWorkers == 2
MaxTasks == 3
MaxScopes == 2
MaxLen == 33

Workers == 1..NumWorkers
Tasks == 1..MaxTasks

\* ------------------------------------------------- AtomicUsize (64 bits)
\* num_tasks is an AtomicUsize.  A usize is kept as four 16-bit limbs,
\* least significant first; fetch_add and fetch_sub wrap around.
LimbBase == 65536
UsizeLimbs == 4

UsizeZero == [i \in 1..UsizeLimbs |-> 0]

wrapping_add_1(c) ==
    [i \in 1..UsizeLimbs |->
        IF \A j \in 1..(i - 1) : c[j] = LimbBase - 1
        THEN (c[i] + 1) % LimbBase
        ELSE c[i]]

wrapping_sub_1(c) ==
    [i \in 1..UsizeLimbs |->
        IF \A j \in 1..(i - 1) : c[j] = 0
        THEN (c[i] + LimbBase - 1) % LimbBase
        ELSE c[i]]

\* The usize c is at most the small natural n.
UsizeAtMost(c, n) == (\A i \in 2..UsizeLimbs : c[i] = 0) /\ c[1] <= n

\* The usize c equals the small natural n.
UsizeEquals(c, n) == (\A i \in 2..UsizeLimbs : c[i] = 0) /\ c[1] = n

VARIABLES
    channel,      \* mpsc channel: messages sent and not yet received, oldest first
    num_tasks,    \* ThreadPool.num_tasks (AtomicUsize)
    reciever,     \* holder of the Mutex around the Receiver: 0 or a worker
    wpc,          \* position of each worker thread in its loop
    wtask,        \* the task a worker took from its NewTask message, 0 if none
    ppc,          \* position of the client thread
    pret,         \* where the client continues when await_all returns
    unwinding,    \* the client thread is unwinding from a panic of a scope body
    scopes,       \* number of calls of scoped so far
    entry_count,  \* num_tasks as it was when the current scope was entered
    assigned,     \* number of assign_task calls so far (tasks 1..assigned exist)
    tstate,       \* history: state of every task
    tscope,       \* history: the scope a task was assigned in
    registered,   \* history: the fetch_add of the task's assign_task has happened
    exec_count,   \* history: how many times the task's thunk was started
    received_by,  \* history: the workers that received the task's message
    awaited,      \* history: await_all has been called
    term_sent,    \* Terminate messages sent by Drop for ThreadPool
    term_recv,    \* Terminate messages received by each worker
    join_idx,     \* index of the next worker Drop for ThreadPool joins
    drop_backlog, \* history: NewTask messages in the channel when the drop began
    hw_aes,          \* is_x86_feature_detected!("aes") && ..("sse2")
    overflow_checks, \* the build panics on integer overflow (debug profile)
    key,          \* the key argument: a byte slice
    iv_opt,       \* the iv argument: <<>> for None, <<iv>> for Some(iv)
    data0,        \* the buffer as it was passed in
    data,         \* the buffer
    cpc,          \* position of the codec operation
    iv,           \* the IV in use, <<>> before it is known
    ret_iv,       \* <<the u128 aes_encrypt_decrypt returned>>
    round_keys,   \* the round keys (shared by the blocks through an Arc)
    blocks,       \* the Vec<AesBlock> of decompose; data is <<offset, len>>
    enc_counter,  \* enc_counter of each block's encrypt, <<>> before line 218
    bpos,         \* loop index of each block's encrypt, -1 before line 218
    first_done    \* history: the block whose encrypt returned first

vars == <<channel, num_tasks, reciever, wpc, wtask, ppc, pret, unwinding,
          scopes, entry_count, assigned, tstate, tscope, registered,
          exec_count, received_by, awaited, term_sent, term_recv, join_idx,
          drop_backlog, hw_aes, overflow_checks, key, iv_opt, data0, data,
          cpc, iv, ret_iv, round_keys, blocks, enc_counter, bpos, first_done>>

workerVars == <<reciever, wpc, wtask, term_recv>>
taskHist == <<tstate, tscope, registered, exec_count, received_by>>
dropVars == <<term_sent, join_idx, drop_backlog>>
scopeVars == <<unwinding, scopes, entry_count>>
poolVars == <<channel, num_tasks, workerVars, ppc, pret, awaited, assigned,
              taskHist, dropVars, scopeVars>>
ctrVars == <<hw_aes, overflow_checks, key, iv_opt, data0, data, cpc, iv, ret_iv,
             round_keys, blocks, enc_counter, bpos, first_done>>

NewTask(t) == [type |-> "NewTask", task |-> t]
Terminate == [type |-> "Terminate", task |-> 0]

\* ThreadPool::new: the channel is empty, num_tasks is 0, every worker has
\* been spawned and is about to lock the receiver.
PoolNew(start) ==
    /\ channel = <<>>
    /\ num_tasks = UsizeZero
    /\ reciever = 0
    /\ wpc = [w \in Workers |-> "lock"]
    /\ wtask = [w \in Workers |-> 0]
    /\ ppc = start
    /\ pret = start
    /\ unwinding = FALSE
    /\ scopes = 0
    /\ entry_count = UsizeZero
    /\ assigned = 0
    /\ tstate = [t \in Tasks |-> "none"]
    /\ tscope = [t \in Tasks |-> 0]
    /\ registered = [t \in Tasks |-> FALSE]
    /\ exec_count = [t \in Tasks |-> 0]
    /\ received_by = [t \in Tasks |-> {}]
    /\ awaited = FALSE
    /\ term_sent = 0
    /\ term_recv = [w \in Workers |-> 0]
    /\ join_idx = 1
    /\ drop_backlog = 0

\* ------------------------------------------------------------ the workers
\* reciever.lock().unwrap()
WorkerLock(w) ==
    /\ wpc[w] = "lock"
    /\ reciever = 0
    /\ reciever' = w
    /\ wpc' = [wpc EXCEPT ![w] = "recv"]
    /\ UNCHANGED <<channel, num_tasks, wtask, term_recv, ppc, pret, awaited,
                   assigned, taskHist, dropVars, scopeVars,
                   ctrVars>>

\* WorkerRecv as it would be if recv handed out the oldest message without
\* taking it off the channel.
WorkerRecv_NoPop(w) ==
    /\ wpc[w] = "recv"
    /\ channel # <<>>
    /\ LET message == Head(channel) IN
        /\ channel' = channel
        /\ reciever' = 0
        /\ IF message.type = "NewTask"
           THEN /\ wpc' = [wpc EXCEPT ![w] = "run"]
                /\ wtask' = [wtask EXCEPT ![w] = message.task]
                /\ tstate' = [tstate EXCEPT ![message.task] = "running"]
                /\ exec_count' = [exec_count EXCEPT ![message.task] = @ + 1]
                /\ received_by' = [received_by EXCEPT ![message.task] = @ \cup {w}]
                /\ UNCHANGED term_recv
           ELSE /\ wpc' = [wpc EXCEPT ![w] = "exited"]
                /\ term_recv' = [term_recv EXCEPT ![w] = @ + 1]
                /\ UNCHANGED <<wtask, tstate, exec_count, received_by>>
    /\ UNCHANGED <<num_tasks, ppc, pret, awaited, assigned, tscope, registered,
                   dropVars, scopeVars,
                   ctrVars>>

\* WorkerRecv as it would be if the guard of the receiver mutex were bound to
\* a variable of the loop body and so outlived the statement
WorkerRecv_KeepsGuard(w) ==
    /\ wpc[w] = "recv"
    /\ channel # <<>>
    /\ LET message == Head(channel) IN
        /\ channel' = Tail(channel)
        /\ reciever' = reciever
        /\ IF message.type = "NewTask"
           THEN /\ wpc' = [wpc EXCEPT ![w] = "run"]
                /\ wtask' = [wtask EXCEPT ![w] = message.task]
                /\ tstate' = [tstate EXCEPT ![message.task] = "running"]
                /\ exec_count' = [exec_count EXCEPT ![message.task] = @ + 1]
                /\ received_by' = [received_by EXCEPT ![message.task] = @ \cup {w}]
                /\ UNCHANGED term_recv
           ELSE /\ wpc' = [wpc EXCEPT ![w] = "exited"]
                /\ term_recv' = [term_recv EXCEPT ![w] = @ + 1]
                /\ UNCHANGED <<wtask, tstate, exec_count, received_by>>
    /\ UNCHANGED <<num_tasks, ppc, pret, awaited, assigned, tscope, registered,
                   dropVars, scopeVars,
                   ctrVars>>

\* .recv().unwrap(): blocks, holding the mutex, until a message is there;
\* takes the oldest message; the guard is dropped at the end of the
\* statement; then the match on the message.
WorkerRecv(w) ==
    /\ wpc[w] = "recv"
    /\ channel # <<>>
    /\ LET message == Head(channel) IN
        /\ channel' = Tail(channel)
        /\ reciever' = 0
        /\ IF message.type = "NewTask"
           THEN /\ wpc' = [wpc EXCEPT ![w] = "run"]
                /\ wtask' = [wtask EXCEPT ![w] = message.task]
                /\ tstate' = [tstate EXCEPT ![message.task] = "running"]
                /\ exec_count' = [exec_count EXCEPT ![message.task] = @ + 1]
                /\ received_by' = [received_by EXCEPT ![message.task] = @ \cup {w}]
                /\ UNCHANGED term_recv
           ELSE /\ wpc' = [wpc EXCEPT ![w] = "exited"]
                /\ term_recv' = [term_recv EXCEPT ![w] = @ + 1]
                /\ UNCHANGED <<wtask, tstate, exec_count, received_by>>
    /\ UNCHANGED <<num_tasks, ppc, pret, awaited, assigned, tscope, registered,
                   dropVars, scopeVars,
                   ctrVars>>

\* taskptr.call_once_box() returns.
ThunkReturn(w) ==
    /\ wpc[w] = "run"
    /\ wpc' = [wpc EXCEPT ![w] = "dec"]
    /\ tstate' = [tstate EXCEPT ![wtask[w]] = "returned"]
    /\ UNCHANGED <<channel, num_tasks, reciever, wtask, term_recv, ppc, pret,
                   awaited, assigned, tscope, registered, exec_count,
                   received_by, dropVars, scopeVars,
                   ctrVars>>

\* taskptr.call_once_box() panics: nothing in the worker's closure catches
\* the panic, so the worker thread unwinds and ends.
ThunkPanic(w) ==
    /\ wpc[w] = "run"
    /\ wpc' = [wpc EXCEPT ![w] = "panicked"]
    /\ tstate' = [tstate EXCEPT ![wtask[w]] = "panicked"]
    /\ UNCHANGED <<channel, num_tasks, reciever, wtask, term_recv, ppc, pret,
                   awaited, assigned, tscope, registered, exec_count,
                   received_by, dropVars, scopeVars,
                   ctrVars>>

\* num_tasks.fetch_sub(1, Ordering::SeqCst)
WorkerFetchSub(w) ==
    /\ wpc[w] = "dec"
    /\ num_tasks' = wrapping_sub_1(num_tasks)
    /\ wpc' = [wpc EXCEPT ![w] = "notify"]
    /\ tstate' = [tstate EXCEPT ![wtask[w]] = "done"]
    /\ UNCHANGED <<channel, reciever, wtask, term_recv, ppc, pret, awaited,
                   assigned, tscope, registered, exec_count, received_by,
                   dropVars, scopeVars,
                   ctrVars>>

\* await_condvar.0.notify_one(): wakes the client if it is blocked in the
\* condition variable; the client then re-acquires the mutex and tests the
\* condition again.  Then the worker loops.
WorkerNotify(w) ==
    /\ wpc[w] = "notify"
    /\ wpc' = [wpc EXCEPT ![w] = "lock"]
    /\ wtask' = [wtask EXCEPT ![w] = 0]
    /\ ppc' = IF ppc = "await_blocked" THEN "await_check" ELSE ppc
    /\ UNCHANGED <<channel, num_tasks, reciever, term_recv, pret, awaited,
                   assigned, taskHist, dropVars, scopeVars,
                   ctrVars>>

\* ------------------------------------------------- assign_task, await_all
\* self.pool.sender.send(message).unwrap()
AssignSend(home) ==
    /\ ppc = home
    /\ assigned < MaxTasks
    /\ assigned' = assigned + 1
    /\ channel' = Append(channel, NewTask(assigned + 1))
    /\ tstate' = [tstate EXCEPT ![assigned + 1] = "queued"]
    /\ tscope' = [tscope EXCEPT ![assigned + 1] = scopes]
    /\ ppc' = "assign_add"
    /\ pret' = home
    /\ UNCHANGED <<num_tasks, workerVars, awaited, registered, exec_count,
                   received_by, dropVars, scopeVars,
                   ctrVars>>

\* self.pool.num_tasks.fetch_add(1, Ordering::SeqCst)
AssignFetchAdd ==
    /\ ppc = "assign_add"
    /\ num_tasks' = wrapping_add_1(num_tasks)
    /\ registered' = [registered EXCEPT ![assigned] = TRUE]
    /\ ppc' = pret
    /\ UNCHANGED <<channel, workerVars, pret, awaited, assigned, tstate, tscope,
                   exec_count, received_by, dropVars, scopeVars,
                   ctrVars>>

\* await_condvar.1.lock().unwrap(): only the client locks this mutex.
AwaitLock ==
    /\ ppc = "await_lock"
    /\ ppc' = "await_check"
    /\ UNCHANGED <<channel, num_tasks, workerVars, pret, awaited, assigned,
                   taskHist, dropVars, scopeVars,
                   ctrVars>>

\* AwaitCheck as it would be if the condition of wait_while were never true.
AwaitCheck_NoWait ==
    /\ ppc = "await_check"
    /\ ppc' = pret
    /\ UNCHANGED <<channel, num_tasks, workerVars, pret, awaited, assigned,
                   taskHist, dropVars, scopeVars,
                   ctrVars>>

\* wait_while tests its condition: num_tasks.load(SeqCst) > 0.  When it is
\* false await_all returns (the guard is dropped).
AwaitCheck ==
    /\ ppc = "await_check"
    /\ ppc' = IF num_tasks # UsizeZero THEN "await_wait" ELSE pret
    /\ UNCHANGED <<channel, num_tasks, workerVars, pret, awaited, assigned,
                   taskHist, dropVars, scopeVars,
                   ctrVars>>

\* wait_while calls Condvar::wait: the mutex is released and the client
\* blocks, in one step.
AwaitWait ==
    /\ ppc = "await_wait"
    /\ ppc' = "await_blocked"
    /\ UNCHANGED <<channel, num_tasks, workerVars, pret, awaited, assigned,
                   taskHist, dropVars, scopeVars,
                   ctrVars>>

\* Condvar::wait may return without a notification.
SpuriousWakeup ==
    /\ ppc = "await_blocked"
    /\ ppc' = "await_check"
    /\ UNCHANGED <<channel, num_tasks, workerVars, pret, awaited, assigned,
                   taskHist, dropVars, scopeVars,
                   ctrVars>>

\* ------------------------------------------- scoped_thread_pool.rs client
\* ThreadPool::scoped: builds the ThreadPoolScope and calls scope_fn(&scope).
Scoped ==
    /\ ppc = "idle"
    /\ ~unwinding
    /\ scopes < MaxScopes
    /\ scopes' = scopes + 1
    /\ entry_count' = num_tasks
    /\ ppc' = "body"
    /\ UNCHANGED <<channel, num_tasks, workerVars, pret, unwinding, awaited,
                   assigned, taskHist, dropVars, ctrVars>>

\* scope_fn calls scope.assign_task(..): the send.
ScopeAssignTask == AssignSend("body")

\* scope_fn calls scope.await_all().
ScopeAwaitAll ==
    /\ ppc = "body"
    /\ ppc' = "await_lock"
    /\ pret' = "body"
    /\ awaited' = TRUE
    /\ UNCHANGED <<channel, num_tasks, workerVars, assigned, taskHist,
                   dropVars, scopeVars,
                   ctrVars>>

\* BodyReturn as it would be without the Drop impl of ThreadPoolScope.
BodyReturn_NoDrop ==
    /\ ppc = "body"
    /\ ppc' = "idle"
    /\ pret' = "idle"
    /\ UNCHANGED <<channel, num_tasks, workerVars, awaited, assigned, taskHist,
                   dropVars, scopeVars,
                   ctrVars>>

\* scope_fn returns: the local `scope` of scoped is dropped, and Drop for
\* ThreadPoolScope calls await_all before scoped returns.
BodyReturn ==
    /\ ppc = "body"
    /\ ppc' = "await_lock"
    /\ pret' = "idle"
    /\ UNCHANGED <<channel, num_tasks, workerVars, awaited, assigned, taskHist,
                   dropVars, scopeVars,
                   ctrVars>>

\* BodyPanic as it would be if the scope were not dropped while unwinding.
BodyPanic_NoDrop ==
    /\ ppc = "body"
    /\ unwinding' = TRUE
    /\ ppc' = "idle"
    /\ pret' = "idle"
    /\ UNCHANGED <<channel, num_tasks, workerVars, awaited, assigned, taskHist,
                   dropVars, scopes, entry_count,
                   ctrVars>>

\* scope_fn panics: unwinding drops the local `scope` of scoped, so Drop for
\* ThreadPoolScope calls await_all before the panic leaves scoped.
BodyPanic ==
    /\ ppc = "body"
    /\ unwinding' = TRUE
    /\ ppc' = "await_lock"
    /\ pret' = "idle"
    /\ UNCHANGED <<channel, num_tasks, workerVars, awaited, assigned, taskHist,
                   dropVars, scopes, entry_count,
                   ctrVars>>

\* ---------------------------------------------------- thread_pool.rs client
\* tp.assign_task(..): the send.
PoolAssignTask == AssignSend("main")

\* tp.await_all()
PoolAwaitAll ==
    /\ ppc = "main"
    /\ ppc' = "await_lock"
    /\ pret' = "main"
    /\ awaited' = TRUE
    /\ UNCHANGED <<channel, num_tasks, workerVars, assigned, taskHist,
                   dropVars, scopeVars,
                   ctrVars>>

\* ------------------------------------------------------ Drop for ThreadPool
\* The pool goes out of scope (also while the client unwinds).
PoolDrop ==
    /\ ppc \in {"idle", "main"}
    /\ ppc' = "drop_send"
    /\ drop_backlog' = Cardinality({i \in 1..Len(channel) : channel[i].type = "NewTask"})
    /\ UNCHANGED <<channel, num_tasks, workerVars, pret, awaited, assigned,
                   taskHist, term_sent, join_idx, scopeVars,
                   ctrVars>>

\* DropSend as it would be if Terminate overtook the messages already queued.
DropSend_Front ==
    /\ ppc = "drop_send"
    /\ term_sent < NumWorkers
    /\ channel' = <<Terminate>> \o channel
    /\ term_sent' = term_sent + 1
    /\ ppc' = IF term_sent + 1 = NumWorkers THEN "drop_join" ELSE "drop_send"
    /\ UNCHANGED <<num_tasks, workerVars, pret, awaited, assigned, taskHist,
                   join_idx, drop_backlog, scopeVars,
                   ctrVars>>

\* for _ in 0..self.workers.len() { self.sender.send(Message::Terminate) }
DropSend ==
    /\ ppc = "drop_send"
    /\ term_sent < NumWorkers
    /\ channel' = Append(channel, Terminate)
    /\ term_sent' = term_sent + 1
    /\ ppc' = IF term_sent + 1 = NumWorkers THEN "drop_join" ELSE "drop_send"
    /\ UNCHANGED <<num_tasks, workerVars, pret, awaited, assigned, taskHist,
                   join_idx, drop_backlog, scopeVars,
                   ctrVars>>

\* thread.join().unwrap() on the next worker: blocks until that thread has
\* ended; join is Err for a thread that ended by a panic, and unwrap panics.
DropJoin ==
    /\ ppc = "drop_join"
    /\ wpc[join_idx] \in {"exited", "panicked"}
    /\ IF wpc[join_idx] = "panicked"
       THEN /\ ppc' = "drop_panicked"
            /\ UNCHANGED join_idx
       ELSE /\ join_idx' = join_idx + 1
            /\ ppc' = IF join_idx = NumWorkers THEN "dropped" ELSE "drop_join"
    /\ UNCHANGED <<channel, num_tasks, workerVars, pret, awaited, assigned,
                   taskHist, term_sent, drop_backlog, scopeVars,
                   ctrVars>>

\* no codec operation is in progress
CtrIdle ==
    /\ hw_aes = FALSE
    /\ overflow_checks = FALSE
    /\ key = <<>>
    /\ iv_opt = <<>>
    /\ data0 = <<>>
    /\ data = <<>>
    /\ cpc = "idle"
    /\ iv = <<>>
    /\ ret_iv = <<>>
    /\ round_keys = <<>>
    /\ blocks = <<>>
    /\ enc_counter = <<>>
    /\ bpos = <<>>
    /\ first_done = 0

\* ------------------------------------------------------------ specifications
WorkerNext ==
    \E w \in Workers :
        \/ WorkerLock(w)
        \/ WorkerRecv(w)
        \/ ThunkReturn(w)
        \/ ThunkPanic(w)
        \/ WorkerFetchSub(w)
        \/ WorkerNotify(w)

AwaitNext == AwaitLock \/ AwaitCheck \/ AwaitWait \/ SpuriousWakeup

DropNext == PoolDrop \/ DropSend \/ DropJoin

\* A client of scoped_thread_pool.rs: any number of scopes, one after the
\* other, each assigning tasks and awaiting as it likes; then the pool is
\* dropped.
Init == PoolNew("idle") /\ CtrIdle

Next ==
    \/ Scoped
    \/ ScopeAssignTask
    \/ AssignFetchAdd
    \/ ScopeAwaitAll
    \/ BodyReturn
    \/ BodyPanic
    \/ AwaitNext
    \/ DropNext
    \/ WorkerNext

Spec == Init /\ [][Next]_vars

\* A client of thread_pool.rs: assign_task and await_all on the pool itself,
\* then the pool is dropped.
InitPool == PoolNew("main") /\ CtrIdle

NextPool ==
    \/ PoolAssignTask
    \/ AssignFetchAdd
    \/ PoolAwaitAll
    \/ AwaitNext
    \/ DropNext
    \/ WorkerNext

SpecPool == InitPool /\ [][NextPool]_vars

TypeOK ==
    /\ \A i \in 1..Len(channel) : channel[i].type \in {"NewTask", "Terminate"}
    /\ reciever \in {0} \cup Workers
    /\ \A w \in Workers :
        wpc[w] \in {"lock", "recv", "run", "dec", "notify", "exited", "panicked"}
    /\ ppc \in {"idle", "main", "body", "assign_add", "await_lock", "await_check",
                "await_wait", "await_blocked", "drop_send", "drop_join",
                "dropped", "drop_panicked"}
    /\ assigned \in 0..MaxTasks
    /\ \A t \in Tasks :
        tstate[t] \in {"none", "queued", "running", "returned", "done", "panicked"}

\* ------------------------------------------------------------ properties
NewTasksQueued == {i \in 1..Len(channel) : channel[i].type = "NewTask"}

\* The client is not inside a call of scoped.
OutsideScope == ppc \in {"idle", "drop_send", "drop_join", "dropped", "drop_panicked"}

SentCount == Cardinality({t \in Tasks : tstate[t] # "none"})
ExecutedCount == Cardinality({t \in Tasks : tstate[t] = "done"})

\* C1: when scoped has returned, no task assigned in the scope is queued or
\* executing, and num_tasks is what it was when the scope was entered.
C1_ScopeDrain ==
    (OutsideScope /\ ~unwinding) =>
        /\ NewTasksQueued = {}
        /\ \A t \in Tasks : tstate[t] \notin {"queued", "running"}
        /\ num_tasks = entry_count

C1_Witness ==
    /\ ppc = "idle"
    /\ ~unwinding
    /\ scopes = 2
    /\ \E t \in Tasks : tscope[t] = 2 /\ tstate[t] = "done"

\* C2: no worker has decremented num_tasks for a task before the fetch_add
\* of the assign_task that sent the task.
C2_IncrementBeforeDecrement ==
    \A t \in Tasks : tstate[t] = "done" => registered[t]

\* C3: num_tasks never underflows (it is at most the number of NewTask
\* messages sent), and outside assign_task it is the number of NewTask
\* messages sent minus the number of tasks fully executed.
C3_CounterInvariant ==
    /\ UsizeAtMost(num_tasks, SentCount)
    /\ ppc # "assign_add" => UsizeEquals(num_tasks, SentCount - ExecutedCount)

\* C4: a thunk that panics still has num_tasks decremented: when no task is
\* queued, none is being executed and no decrement is pending, num_tasks
\* is 0, so that await_all can return.
C4_PanicStillDecrements ==
    (/\ ppc # "assign_add"
     /\ NewTasksQueued = {}
     /\ \A w \in Workers : wpc[w] \notin {"run", "dec"})
        => num_tasks = UsizeZero

\* C5: when a panic of the scope body has left scoped, no task assigned in
\* the scope is queued or executing.
C5_PanicDrain ==
    (OutsideScope /\ unwinding) =>
        /\ NewTasksQueued = {}
        /\ \A t \in Tasks : tstate[t] \notin {"queued", "running"}

C5_Witness ==
    /\ ppc = "idle"
    /\ unwinding
    /\ \E t \in Tasks : tstate[t] = "done"

\* C6: a thunk is started at most once and its message is received by at
\* most one worker; when its scope has returned it has been started
\* exactly once.
C6_ExactlyOnce ==
    \A t \in Tasks :
        /\ exec_count[t] <= 1
        /\ Cardinality(received_by[t]) <= 1
        /\ (OutsideScope /\ tstate[t] # "none") => exec_count[t] = 1

C6_Witness ==
    /\ ppc = "idle"
    /\ \A t \in Tasks : exec_count[t] = 1
    /\ \E t1, t2 \in Tasks : received_by[t1] # received_by[t2]

\* C7: a task of a later scope has started only if every task of every
\* earlier scope has completed.
C7_ScopesInOrder ==
    \A t1, t2 \in Tasks :
        (/\ tstate[t1] # "none"
         /\ tscope[t1] < tscope[t2]
         /\ tstate[t2] \in {"running", "returned", "done", "panicked"})
            => tstate[t1] \in {"returned", "done"}

C7_Witness ==
    \E t1, t2 \in Tasks :
        /\ tscope[t1] = 1
        /\ tscope[t2] = 2
        /\ tstate[t2] = "running"

\* C8: Drop for ThreadPool sends one Terminate per worker, ends by
\* returning, and has returned only when every worker has left its loop,
\* each having received exactly one Terminate.
C8_DropJoinsAll ==
    /\ term_sent <= NumWorkers
    /\ ppc # "drop_panicked"
    /\ ppc = "dropped" =>
        \A w \in Workers : wpc[w] = "exited" /\ term_recv[w] = 1

\* C9: no worker has received a Terminate while a NewTask is in the channel,
\* and when Drop for ThreadPool has returned every task sent has been
\* executed.
C9_TasksBeforeTerminate ==
    /\ (\E w \in Workers : wpc[w] = "exited") => NewTasksQueued = {}
    /\ ppc = "dropped" => \A t \in Tasks : tstate[t] \in {"none", "done"}

C9_Witness ==
    /\ ppc = "dropped"
    /\ ~awaited
    /\ drop_backlog >= 2
    /\ \A t \in Tasks : tstate[t] = "done"

\* =========================================================== AES-128 / CTR
\* A u8 is a number in 0..255.  A u128 is the tuple of its 16 bytes, least
\* significant first (so u128.to_le_bytes() is the tuple itself); an __m128i
\* is the tuple of its 16 bytes, byte 0 first (transmute on x86).
Bytes == 0..255
BlockLen == 16

\* the tuple <<f(1), .., f(16)>>
Tup16(f(_)) ==
    <<f(1), f(2), f(3), f(4), f(5), f(6), f(7), f(8),
      f(9), f(10), f(11), f(12), f(13), f(14), f(15), f(16)>>

Xor4 ==
    [a \in 0..15 |-> [b \in 0..15 |->
        LET bit(x, k) == (x \div k) % 2 IN
        ((bit(a, 1) + bit(b, 1)) % 2)
        + 2 * ((bit(a, 2) + bit(b, 2)) % 2)
        + 4 * ((bit(a, 4) + bit(b, 4)) % 2)
        + 8 * ((bit(a, 8) + bit(b, 8)) % 2)]]

\* a ^ b on u8
Xor8(a, b) == 16 * Xor4[a \div 16][b \div 16] + Xor4[a % 16][b % 16]

\* a ^ b on u128 / _mm_xor_si128
Xor128(a, b) == LET f(i) == Xor8(a[i], b[i]) IN Tup16(f)

\* u128::to_be() / swap_bytes() on a little-endian target
to_be(n) == LET f(i) == n[17 - i] IN Tup16(f)

\* to_sse_128 and from_sse_128 transmute: the bytes stay where they are
to_sse_128(n) == n
from_sse_128(x) == x

\* the AES S-box
S_BOX ==
    <<99, 124, 119, 123, 242, 107, 111, 197, 48, 1, 103, 43, 254, 215, 171, 118,
      202, 130, 201, 125, 250, 89, 71, 240, 173, 212, 162, 175, 156, 164, 114, 192,
      183, 253, 147, 38, 54, 63, 247, 204, 52, 165, 229, 241, 113, 216, 49, 21,
      4, 199, 35, 195, 24, 150, 5, 154, 7, 18, 128, 226, 235, 39, 178, 117,
      9, 131, 44, 26, 27, 110, 90, 160, 82, 59, 214, 179, 41, 227, 47, 132,
      83, 209, 0, 237, 32, 252, 177, 91, 106, 203, 190, 57, 74, 76, 88, 207,
      208, 239, 170, 251, 67, 77, 51, 133, 69, 249, 2, 127, 80, 60, 159, 168,
      81, 163, 64, 143, 146, 157, 56, 245, 188, 182, 218, 33, 16, 255, 243, 210,
      205, 12, 19, 236, 95, 151, 68, 23, 196, 167, 126, 61, 100, 93, 25, 115,
      96, 129, 79, 220, 34, 42, 144, 136, 70, 238, 184, 20, 222, 94, 11, 219,
      224, 50, 58, 10, 73, 6, 36, 92, 194, 211, 172, 98, 145, 149, 228, 121,
      231, 200, 55, 109, 141, 213, 78, 169, 108, 86, 244, 234, 101, 122, 174, 8,
      186, 120, 37, 46, 28, 166, 180, 198, 232, 221, 116, 31, 75, 189, 139, 138,
      112, 62, 181, 102, 72, 3, 246, 14, 97, 53, 87, 185, 134, 193, 29, 158,
      225, 248, 152, 17, 105, 217, 142, 148, 155, 30, 135, 233, 206, 85, 40, 223,
      140, 161, 137, 13, 191, 230, 66, 104, 65, 153, 45, 15, 176, 84, 187, 22>>
SubByte(b) == S_BOX[b + 1]

\* RCON of aes/simd.rs (not right padded)
RCON == <<1, 2, 4, 8, 16, 32, 64, 128, 27, 54>>

\* multiplication by x in GF(2^8) modulo x^8 + x^4 + x^3 + x + 1
xtime(a) == Xor8((2 * a) % 256, IF a >= 128 THEN 27 ELSE 0)

\* The AES state in an __m128i: byte r + 4c is row r of column c.
ShiftRows(s) ==
    LET f(i) ==
            LET r == (i - 1) % 4
                c == (i - 1) \div 4
            IN s[r + 4 * ((c + r) % 4) + 1]
    IN Tup16(f)

SubBytes(s) == LET f(i) == SubByte(s[i]) IN Tup16(f)

MixColumns(s) ==
    LET f(i) ==
            LET r == (i - 1) % 4
                c == (i - 1) \div 4
                a0 == s[4 * c + r + 1]
                a1 == s[4 * c + ((r + 1) % 4) + 1]
                a2 == s[4 * c + ((r + 2) % 4) + 1]
                a3 == s[4 * c + ((r + 3) % 4) + 1]
            IN Xor8(Xor8(xtime(a0), Xor8(xtime(a1), a1)), Xor8(a2, a3))
    IN Tup16(f)

\* AESENC: ShiftRows, SubBytes, MixColumns, then xor of the round key
mm_aesenc_si128(a, round_key) ==
    Xor128(MixColumns(SubBytes(ShiftRows(a))), round_key)

\* AESENCLAST: ShiftRows, SubBytes, then xor of the round key
mm_aesenclast_si128(a, round_key) ==
    Xor128(SubBytes(ShiftRows(a)), round_key)

\* AESKEYGENASSIST: with X1 and X3 the dwords 1 and 3 of a, the result has
\* the dwords SubWord(X1), RotWord(SubWord(X1)) ^ rcon, SubWord(X3),
\* RotWord(SubWord(X3)) ^ rcon.
mm_aeskeygenassist_si128(a, rcon) ==
    LET sub(d) == <<SubByte(a[4 * d + 1]), SubByte(a[4 * d + 2]),
                    SubByte(a[4 * d + 3]), SubByte(a[4 * d + 4])>>
        rot(w) == <<Xor8(w[2], rcon), w[3], w[4], w[1]>>
    IN sub(1) \o rot(sub(1)) \o sub(3) \o rot(sub(3))

\* the shuffle as it would be with the immediate 0: every dword becomes dword 0
mm_shuffle_epi32_0(a) == LET f(i) == a[((i - 1) % 4) + 1] IN Tup16(f)

\* _mm_shuffle_epi32::<255>: every dword becomes dword 3
mm_shuffle_epi32_255(a) == LET f(i) == a[12 + ((i - 1) % 4) + 1] IN Tup16(f)

\* _mm_slli_si128::<4>: shift left by 4 bytes
mm_slli_si128_4(a) == LET f(i) == IF i <= 4 THEN 0 ELSE a[i - 4] IN Tup16(f)

\* aes/simd.rs key_expansion_assist
key_expansion_assist(xmm1, xmm2) ==
    LET s2 == mm_shuffle_epi32_255(xmm2)
        a1 == Xor128(xmm1, mm_slli_si128_4(xmm1))
        b1 == Xor128(a1, mm_slli_si128_4(a1))
        c1 == Xor128(b1, mm_slli_si128_4(b1))
    IN Xor128(c1, s2)

\* aes/simd.rs key_expand_i!(key, i), i counted from 0
key_expand_i(k, i) ==
    LET xmm1 == to_sse_128(to_be(k))
        xmm2 == mm_aeskeygenassist_si128(xmm1, RCON[i + 1])
    IN to_be(from_sse_128(key_expansion_assist(xmm1, xmm2)))

\* aes/simd.rs key_expansion: [rk0, .., rk10]
RECURSIVE simd_round_keys(_, _)
simd_round_keys(k, n) ==
    IF n = 0 THEN <<k>>
    ELSE LET prev == simd_round_keys(k, n - 1)
         IN Append(prev, key_expand_i(prev[n], n - 1))

simd_key_expansion(k) == simd_round_keys(k, 10)

\* aes/simd.rs cipher: the states after the xor of round_keys[0] and after
\* each of the first i rounds
RECURSIVE simd_rounds(_, _, _)
simd_rounds(state, rks, i) ==
    IF i = 0 THEN <<Xor128(state, to_sse_128(to_be(rks[1])))>>
    ELSE LET prev == simd_rounds(state, rks, i - 1)
         IN Append(prev, mm_aesenc_si128(prev[i], to_sse_128(to_be(rks[i + 1]))))

simd_cipher(state, rks) ==
    LET s9 == simd_rounds(to_sse_128(to_be(state)), rks, 9)[10]
    IN to_be(from_sse_128(
           mm_aesenclast_si128(s9, to_sse_128(to_be(rks[11])))))

\* ---------------------------------------------------------------- aes/sisd
\* The portable backend.  A u32 word is the tuple of its 4 bytes, least
\* significant first.
sub_word(w) == <<SubByte(w[1]), SubByte(w[2]), SubByte(w[3]), SubByte(w[4])>>

\* u32::rotate_left(8)
rotate_left_8(w) == <<w[4], w[1], w[2], w[3]>>

xor_word(a, b) == <<Xor8(a[1], b[1]), Xor8(a[2], b[2]), Xor8(a[3], b[3]), Xor8(a[4], b[4])>>

\* the i-th key schedule step, i counted from 0: k0 is the most significant
\* word of the previous round key, k3 the least significant one
sisd_key_expand(k, i) ==
    LET k3 == <<k[1], k[2], k[3], k[4]>>
        k2 == <<k[5], k[6], k[7], k[8]>>
        k1 == <<k[9], k[10], k[11], k[12]>>
        k0 == <<k[13], k[14], k[15], k[16]>>
        rcon == <<0, 0, 0, RCON[i + 1]>>
        w0 == xor_word(xor_word(k0, sub_word(rotate_left_8(k3))), rcon)
        w1 == xor_word(k1, w0)
        w2 == xor_word(k2, w1)
        w3 == xor_word(k3, w2)
    IN w3 \o w2 \o w1 \o w0

RECURSIVE sisd_round_keys(_, _)
sisd_round_keys(k, n) ==
    IF n = 0 THEN <<k>>
    ELSE LET prev == sisd_round_keys(k, n - 1)
         IN Append(prev, sisd_key_expand(prev[n], n - 1))

sisd_key_expansion(k) == sisd_round_keys(k, 10)

\* The 4x4 state, column by column: byte 4c + r + 1 is row r of column c;
\* the most significant byte of the u128 is row 0 of column 0.
sisd_add_round_key(s, round_key) ==
    LET f(i) == Xor8(s[i], round_key[17 - i]) IN Tup16(f)

sisd_sub_bytes(s) == LET f(i) == S_BOX[s[i] + 1] IN Tup16(f)

sisd_shift_rows(s) ==
    <<s[1], s[6], s[11], s[16],
      s[5], s[10], s[15], s[4],
      s[9], s[14], s[3], s[8],
      s[13], s[2], s[7], s[12]>>

gmul2(a) == IF a < 128 THEN 2 * a ELSE Xor8(2 * a - 256, 27)
gmul3(a) == Xor8(gmul2(a), a)

sisd_mix_column(a, b, c, d) ==
    <<Xor8(Xor8(gmul2(a), gmul3(b)), Xor8(c, d)),
      Xor8(Xor8(a, gmul2(b)), Xor8(gmul3(c), d)),
      Xor8(Xor8(a, b), Xor8(gmul2(c), gmul3(d))),
      Xor8(Xor8(gmul3(a), b), Xor8(c, gmul2(d)))>>

sisd_mix_columns(s) ==
    sisd_mix_column(s[1], s[2], s[3], s[4])
        \o sisd_mix_column(s[5], s[6], s[7], s[8])
        \o sisd_mix_column(s[9], s[10], s[11], s[12])
        \o sisd_mix_column(s[13], s[14], s[15], s[16])

RECURSIVE sisd_rounds(_, _, _)
sisd_rounds(state, rks, i) ==
    IF i = 0 THEN <<sisd_add_round_key(state, rks[1])>>
    ELSE LET prev == sisd_rounds(state, rks, i - 1)
         IN Append(prev,
                sisd_add_round_key(
                    sisd_mix_columns(sisd_shift_rows(sisd_sub_bytes(prev[i]))),
                    rks[i + 1]))

sisd_cipher(state, rks) ==
    LET s9 == sisd_rounds(to_be(state), rks, 9)[10]
    IN to_be(sisd_add_round_key(sisd_shift_rows(sisd_sub_bytes(s9)), rks[11]))

\* ------------------------------------------------------------ aes/mod.rs
\* key_expansion: AES-NI if the CPU has aes and sse2, else the portable code
key_expansion(k) ==
    IF hw_aes THEN simd_key_expansion(k) ELSE sisd_key_expansion(k)

\* cipher
cipher(state, rks) ==
    IF hw_aes THEN simd_cipher(state, rks) ELSE sisd_cipher(state, rks)

\* u128::from_le_bytes: a u128 is kept as its little-endian bytes
from_le_bytes(b) == LET f(i) == b[i] IN Tup16(f)

\* n as u128, for a usize n below 2^31
as_u128(n) ==
    LET f(i) == IF i <= 3 THEN (n \div (256 ^ (i - 1))) % 256
                ELSE IF i = 4 THEN n \div 16777216
                ELSE 0
    IN Tup16(f)

\* u128::to_be_bytes in its place: the most significant byte first
to_le_bytes_Be(n) == to_be(n)

\* u128::to_le_bytes: byte i of the array is the i-th least significant
to_le_bytes(n) == LET f(i) == n[i] IN Tup16(f)

\* a + b on u128: <<the sum modulo 2^128, the carry out of bit 127>>
RECURSIVE add_bytes(_, _, _)
add_bytes(a, b, n) ==
    IF n = 0 THEN <<<<>>, 0>>
    ELSE LET low == add_bytes(a, b, n - 1)
             sum == a[n] + b[n] + low[2]
         IN <<Append(low[1], sum % 256), sum \div 256>>

wrapping_add(a, b) == add_bytes(a, b, 16)[1]
add_overflows(a, b) == add_bytes(a, b, 16)[2] = 1

\* (data.len() as f64 / 16.0).ceil() as usize
num_128_blks(len) == (len + BlockLen - 1) \div BlockLen

\* data.chunks_mut(16): the number of chunks, and chunk i (from 0) as
\* <<offset of its first byte, its length>>
num_chunks(len) == (len + BlockLen - 1) \div BlockLen

\* chunks that would start one byte early, inside the chunk before
chunk_Overlap(len, i) ==
    <<IF i = 0 THEN 0 ELSE BlockLen * i - 1,
      IF BlockLen * (i + 1) <= len THEN BlockLen ELSE len - BlockLen * i>>

\* chunk i of data.chunks_mut(16)
chunk(len, i) ==
    <<BlockLen * i,
      IF BlockLen * (i + 1) <= len THEN BlockLen ELSE len - BlockLen * i>>

Min(a, b) == IF a <= b THEN a ELSE b

\* `+` on u128 panics on overflow when the build has overflow checks
\* (debug), and wraps when it has not (release): some counter of
\* (0..n).map(|n| (n as u128) + iv) makes the operation panic.
counter_panics(ivv, n) ==
    overflow_checks /\ \E k \in 0..(n - 1) : add_overflows(as_u128(k), ivv)

\* AesBlock::decompose as it would be if every block got the counter iv
decompose_blocks_SameCounter(len, ivv, n) ==
    [i \in 1..n |->
        [ctr_block |-> ivv,
         offset |-> chunk(len, i - 1)[1],
         len |-> chunk(len, i - 1)[2]]]

\* AesBlock::decompose as it would be if an empty buffer gave one empty chunk
decompose_blocks_OneForEmpty(len, ivv, n) ==
    IF n = 0 THEN <<[ctr_block |-> ivv, offset |-> 0, len |-> 0]>>
    ELSE [i \in 1..n |->
             [ctr_block |-> wrapping_add(as_u128(i - 1), ivv),
              offset |-> chunk(len, i - 1)[1],
              len |-> chunk(len, i - 1)[2]]]

\* AesBlock::decompose, lines 202-213: the blocks, in the order of the Vec
RECURSIVE decompose_blocks(_, _, _)
decompose_blocks(len, ivv, n) ==
    IF n = 0 THEN <<>>
    ELSE Append(decompose_blocks(len, ivv, n - 1),
                [ctr_block |-> wrapping_add(as_u128(n - 1), ivv),
                 offset |-> chunk(len, n - 1)[1],
                 len |-> chunk(len, n - 1)[2]])

\* the loop as it would be with block[i] += enc_counter[i]
RECURSIVE xor_block_Add(_, _, _)
xor_block_Add(block, enc, n) ==
    IF n = 0 THEN <<>>
    ELSE Append(xor_block_Add(block, enc, n - 1), (block[n] + enc[n]) % 256)

\* the for loop of AesBlock::encrypt and of aes_encrypt_decrypt over one
\* block: block[i] ^= enc_counter[i] for i in 0..block.len()
RECURSIVE xor_block(_, _, _)
xor_block(block, enc, n) ==
    IF n = 0 THEN <<>>
    ELSE Append(xor_block(block, enc, n - 1), Xor8(block[n], enc[n]))

\* aes_encrypt_decrypt, lines 290-296: the buffer after the first n
\* iterations of the loop over the counters
RECURSIVE encrypt_loop(_, _, _, _)
encrypt_loop(d, ivv, rks, n) ==
    IF n = 0 THEN d
    ELSE LET before == encrypt_loop(d, ivv, rks, n - 1)
             counter == wrapping_add(as_u128(n - 1), ivv)
             enc_c == to_le_bytes(cipher(counter, rks))
             off == chunk(Len(d), n - 1)[1]
             blen == chunk(Len(d), n - 1)[2]
             block == SubSeq(before, off + 1, off + blen)
         IN SubSeq(before, 1, off) \o xor_block(block, enc_c, blen)
                \o SubSeq(before, off + blen + 1, Len(d))

\* the test data of test_aes_encrypt_decrypt and test_aes_block_par
KEY ==
    <<60, 79, 207, 9, 136, 21, 247, 171, 166, 210, 174, 40, 22, 21, 126, 43>>
IV ==
    <<255, 254, 253, 252, 251, 250, 249, 248, 247, 246, 245, 244, 243, 242, 241, 240>>
PLAINTEXT ==
    <<42, 23, 147, 115, 17, 126, 61, 233, 150, 159, 64, 46, 226, 190, 193, 107,
      81, 142, 175, 69, 172, 111, 183, 158, 156, 172, 3, 30, 87, 138, 45, 174,
      239, 82, 10, 26, 25, 193, 251, 229, 17, 228, 92, 163, 70, 28, 200, 48,
      16, 55, 108, 230, 123, 65, 43, 173, 23, 155, 79, 223>>
CIPHERTEXT ==
    <<206, 182, 13, 153, 100, 104, 239, 27, 38, 227, 32, 182, 145, 97, 77, 135,
      255, 253, 255, 185, 123, 24, 23, 134, 255, 253, 112, 121, 107, 246, 6, 152,
      171, 62, 176, 13, 2, 9, 79, 91, 94, 211, 213, 219, 62, 223, 228, 90,
      238, 156, 0, 243, 160, 112, 33, 121, 209, 3, 190, 47>>

U128_MAX == [i \in 1..16 |-> 255]

\* the inputs explored
CtrKeys == {KEY, SubSeq(KEY, 1, 15)}
CtrIVs == {IV, U128_MAX}
CtrBuffers == {SubSeq(PLAINTEXT, 1, n) : n \in 0..MaxLen}
MaxBlocks == num_128_blks(MaxLen)

CtrInputs ==
    /\ hw_aes \in BOOLEAN
    /\ overflow_checks \in BOOLEAN
    /\ key \in CtrKeys
    /\ iv_opt \in {<<>>} \cup {<<v>> : v \in CtrIVs}
    /\ data0 \in CtrBuffers
    /\ data = data0
    /\ cpc = "start"
    /\ iv = <<>>
    /\ ret_iv = <<>>
    /\ round_keys = <<>>
    /\ blocks = <<>>
    /\ enc_counter = <<>>
    /\ bpos = <<>>
    /\ first_done = 0

\* Some(iv_provided) => iv_provided; None => 16 bytes of the ChaCha20Rng
IvChoices == IF iv_opt = <<>> THEN CtrIVs ELSE {iv_opt[1]}

\* AesBlock::decompose
Decompose ==
    /\ cpc = "start"
    /\ IF Len(key) # 16
       THEN /\ cpc' = "panicked"
            /\ UNCHANGED <<iv, round_keys, blocks, enc_counter, bpos>>
       ELSE \E v \in IvChoices :
            LET n == Min(num_chunks(Len(data)), num_128_blks(Len(data))) IN
            /\ iv' = v
            /\ round_keys' = key_expansion(from_le_bytes(key))
            /\ IF counter_panics(v, n)
               THEN /\ cpc' = "panicked"
                    /\ UNCHANGED <<blocks, enc_counter, bpos>>
               ELSE /\ cpc' = "decomposed"
                    /\ blocks' = decompose_blocks(Len(data), v, n)
                    /\ enc_counter' = [i \in 1..n |-> <<>>]
                    /\ bpos' = [i \in 1..n |-> -1]
    /\ UNCHANGED <<hw_aes, overflow_checks, key, iv_opt, data0, data, ret_iv,
                   first_done, poolVars>>

\* AesBlock::encrypt, line 218, by the thread that runs block i
BlockCipher(i) ==
    /\ cpc = "decomposed"
    /\ i <= Len(blocks)
    /\ bpos[i] = -1
    /\ enc_counter' = [enc_counter EXCEPT ![i] =
                        to_le_bytes(cipher(blocks[i].ctr_block, round_keys))]
    /\ bpos' = [bpos EXCEPT ![i] = 0]
    /\ UNCHANGED <<hw_aes, overflow_checks, key, iv_opt, data0, data, cpc, iv,
                   ret_iv, round_keys, blocks, first_done, poolVars>>

\* AesBlock::encrypt, lines 220-222: one iteration of the loop of block i
BlockXor(i) ==
    /\ cpc = "decomposed"
    /\ i <= Len(blocks)
    /\ bpos[i] >= 0
    /\ bpos[i] < blocks[i].len
    /\ LET j == blocks[i].offset + bpos[i] + 1 IN
        data' = [data EXCEPT ![j] = Xor8(data[j], enc_counter[i][bpos[i] + 1])]
    /\ bpos' = [bpos EXCEPT ![i] = @ + 1]
    /\ first_done' = IF first_done = 0 /\ bpos[i] + 1 = blocks[i].len
                     THEN i ELSE first_done
    /\ UNCHANGED <<hw_aes, overflow_checks, key, iv_opt, data0, cpc, iv,
                   ret_iv, round_keys, blocks, enc_counter, poolVars>>

\* aes_encrypt_decrypt as it would be with the assert_eq! on the key after
\* the match that settles the IV
AesEncryptDecrypt_LateAssert ==
    /\ cpc = "start"
    /\ \E v \in IvChoices :
        /\ iv' = v
        /\ IF Len(key) # 16
           THEN /\ cpc' = "panicked"
                /\ UNCHANGED <<ret_iv, round_keys, data>>
           ELSE LET n == num_128_blks(Len(data)) IN
                /\ round_keys' = key_expansion(from_le_bytes(key))
                /\ IF counter_panics(v, n)
                   THEN /\ cpc' = "panicked"
                        /\ UNCHANGED <<ret_iv, data>>
                   ELSE /\ cpc' = "returned"
                        /\ data' = encrypt_loop(data, v, round_keys', n)
                        /\ ret_iv' = <<v>>
    /\ UNCHANGED <<hw_aes, overflow_checks, key, iv_opt, data0, blocks,
                   enc_counter, bpos, first_done, poolVars>>

\* aes_encrypt_decrypt as it would be if it returned the counter after the
\* last one it used
AesEncryptDecrypt_ReturnsNext ==
    /\ cpc = "start"
    /\ IF Len(key) # 16
       THEN /\ cpc' = "panicked"
            /\ UNCHANGED <<iv, ret_iv, round_keys, data>>
       ELSE \E v \in IvChoices :
            LET n == num_128_blks(Len(data)) IN
            /\ iv' = v
            /\ round_keys' = key_expansion(from_le_bytes(key))
            /\ IF counter_panics(v, n)
               THEN /\ cpc' = "panicked"
                    /\ UNCHANGED <<ret_iv, data>>
               ELSE /\ cpc' = "returned"
                    /\ data' = encrypt_loop(data, v, round_keys', n)
                    /\ ret_iv' = <<wrapping_add(as_u128(n), v)>>
    /\ UNCHANGED <<hw_aes, overflow_checks, key, iv_opt, data0, blocks,
                   enc_counter, bpos, first_done, poolVars>>

\* aes_encrypt_decrypt (aes_encrypt and aes_decrypt call it)
AesEncryptDecrypt ==
    /\ cpc = "start"
    /\ IF Len(key) # 16
       THEN /\ cpc' = "panicked"
            /\ UNCHANGED <<iv, ret_iv, round_keys, data>>
       ELSE \E v \in IvChoices :
            LET n == num_128_blks(Len(data)) IN
            /\ iv' = v
            /\ round_keys' = key_expansion(from_le_bytes(key))
            /\ IF counter_panics(v, n)
               THEN /\ cpc' = "panicked"
                    /\ UNCHANGED <<ret_iv, data>>
               ELSE /\ cpc' = "returned"
                    /\ data' = encrypt_loop(data, v, round_keys', n)
                    /\ ret_iv' = <<v>>
    /\ UNCHANGED <<hw_aes, overflow_checks, key, iv_opt, data0, blocks,
                   enc_counter, bpos, first_done, poolVars>>

\* aes_decrypt(data, key, iv) with the IV the encryption returned:
\* aes_encrypt_decrypt(data, key, Some(iv))
AesDecrypt ==
    /\ cpc = "returned"
    /\ LET v == ret_iv[1]
           n == num_128_blks(Len(data))
       IN IF Len(key) # 16 \/ counter_panics(v, n)
          THEN /\ cpc' = "panicked"
               /\ UNCHANGED data
          ELSE /\ cpc' = "decrypted"
               /\ data' = encrypt_loop(data, v,
                                       key_expansion(from_le_bytes(key)), n)
    /\ UNCHANGED <<hw_aes, overflow_checks, key, iv_opt, data0, iv, ret_iv,
                   round_keys, blocks, enc_counter, bpos, first_done, poolVars>>

InitCtr == PoolNew("idle") /\ CtrInputs

NextCtr ==
    \/ Decompose
    \/ \E i \in 1..MaxBlocks : BlockCipher(i) \/ BlockXor(i)
    \/ AesEncryptDecrypt
    \/ AesDecrypt

SpecCtr == InitCtr /\ [][NextCtr]_vars

\* the buffer aes_encrypt_decrypt(d, k, Some(ivv)) leaves
SerialResult(d, k, ivv) ==
    encrypt_loop(d, ivv, key_expansion(from_le_bytes(k)), num_128_blks(Len(d)))

AllBlocksDone ==
    /\ cpc = "decomposed"
    /\ \A i \in 1..Len(blocks) : bpos[i] = blocks[i].len

\* C10: when every block task of decompose has run, in whatever order and
\* however interleaved, the buffer is the one the serial aes_encrypt_decrypt
\* leaves for the same buffer, key and IV.
C10_ParallelEqualsSerial ==
    AllBlocksDone => data = SerialResult(data0, key, iv)

C10_Witness ==
    /\ AllBlocksDone
    /\ Len(blocks) = 3
    /\ first_done = 3
    /\ data # data0

\* C11: aes_decrypt with the key and the IV that the encryption returned
\* restores the buffer exactly, whatever its length.
C11_RoundTrip ==
    cpc = "decrypted" => data = data0

\* aes_encrypt (no IV given) of 17 bytes changed the buffer, aes_decrypt ran
C11_Witness ==
    /\ cpc = "decrypted"
    /\ iv_opt = <<>>
    /\ Len(data0) = 17
    /\ Len(data) = 17
    /\ SerialResult(data0, key, iv) # data0

\* C12: for every IV, also one for which IV + i passes 2^128 - 1 for a block
\* index i, the CTR operation (serial entry and decompose) completes
\* normally and block i uses the counter (IV + i) mod 2^128.
C12_WrapAround ==
    (Len(key) = 16 /\ cpc # "start") =>
        /\ cpc # "panicked"
        /\ cpc = "decomposed" =>
               \A i \in 1..Len(blocks) :
                   blocks[i].ctr_block = wrapping_add(as_u128(i - 1), iv)

\* C13: decompose returns ceil(len/16) blocks in buffer order; their
\* sub-slices are pairwise disjoint, 1 to 16 bytes long with only the last
\* one possibly shorter than 16, they cover the buffer contiguously, and
\* block i carries the counter of index i, which no other block carries.
C13_DecomposeShape ==
    cpc = "decomposed" =>
        /\ Len(blocks) = (Len(data0) + 15) \div 16
        /\ \A i \in 1..Len(blocks) :
            /\ blocks[i].len \in 1..16
            /\ blocks[i].len < 16 => i = Len(blocks)
            /\ blocks[i].offset =
                  IF i = 1 THEN 0 ELSE blocks[i - 1].offset + blocks[i - 1].len
            /\ blocks[i].ctr_block = wrapping_add(as_u128(i - 1), iv)
            /\ \A j \in 1..Len(blocks) : j # i =>
                /\ blocks[j].ctr_block # blocks[i].ctr_block
                /\ \/ blocks[j].offset + blocks[j].len <= blocks[i].offset
                   \/ blocks[i].offset + blocks[i].len <= blocks[j].offset
        /\ Len(blocks) > 0 =>
               blocks[Len(blocks)].offset + blocks[Len(blocks)].len = Len(data0)

\* decompose has just returned three blocks for 33 bytes, the last of one byte
C13_Witness ==
    /\ cpc = "decomposed"
    /\ Len(data0) = 33
    /\ Len(blocks) = 3
    /\ blocks[3].len = 1
    /\ \A i \in 1..3 : bpos[i] = -1

\* C14: after a CTR operation byte j of the buffer is the old byte j xored
\* with byte (j mod 16), counted from the least significant, of the cipher
\* of the counter of block floor(j/16); the length of the buffer is unchanged.
C14_KeystreamBytes ==
    (cpc = "returned" \/ AllBlocksDone) =>
        /\ Len(data) = Len(data0)
        /\ \A b \in 0..((Len(data0) - 1) \div 16) :
               LET ks == cipher(wrapping_add(as_u128(b), iv), round_keys)
               IN \A p \in 1..16 :
                      16 * b + p <= Len(data0) =>
                          data[16 * b + p] = Xor8(data0[16 * b + p], ks[p])

\* 17 bytes were encrypted and byte 16 (the lone byte of block 1) changed
C14_Witness ==
    /\ cpc = "returned"
    /\ Len(data0) = 17
    /\ Len(data) = 17
    /\ data[17] # data0[17]

\* C15: aes_encrypt_decrypt returns the IV it used for the counters: a
\* supplied IV is returned as it was given, and block 0 is xored with the
\* cipher of exactly the returned value.
C15_ReturnsUsedIv ==
    cpc = "returned" =>
        /\ Len(ret_iv) = 1
        /\ iv_opt # <<>> => ret_iv = iv_opt
        /\ LET ks == cipher(ret_iv[1], key_expansion(from_le_bytes(key)))
           IN \A p \in 1..16 :
                  p <= Len(data0) => data[p] = Xor8(data0[p], ks[p])

\* a call with Some(IV) on 33 bytes has returned
C15_Witness ==
    /\ cpc = "returned"
    /\ iv_opt = <<IV>>
    /\ ret_iv = <<IV>>
    /\ Len(data0) = 33
    /\ data # data0

\* C16: with a key that is not 16 bytes long the serial entry (aes_encrypt,
\* aes_decrypt, aes_encrypt_decrypt) and decompose panic before a byte of
\* the buffer is modified and before an IV is generated.
C16_BadKeyPanicsFirst ==
    (Len(key) # 16 /\ cpc # "start") =>
        /\ cpc = "panicked"
        /\ data = data0
        /\ iv = <<>>
        /\ ret_iv = <<>>
        /\ round_keys = <<>>
        /\ blocks = <<>>

\* a call without IV, with a 15-byte key and a 17-byte buffer, has panicked
C16_Witness ==
    /\ cpc = "panicked"
    /\ Len(key) = 15
    /\ iv_opt = <<>>
    /\ Len(data0) = 17
    /\ data = data0

\* C17: on an empty buffer (and a 16-byte key) the encryption returns an IV
\* and leaves the buffer empty, decompose creates no block task so that no
\* block step can run, and the decryption leaves the buffer empty.
C17_EmptyBuffer ==
    (Len(data0) = 0 /\ Len(key) = 16 /\ cpc # "start") =>
        /\ cpc \in {"returned", "decomposed", "decrypted"}
        /\ data = <<>>
        /\ blocks = <<>>
        /\ cpc = "decomposed" =>
               \A i \in 1..MaxBlocks :
                   ~ENABLED BlockCipher(i) /\ ~ENABLED BlockXor(i)
        /\ cpc \in {"returned", "decrypted"} => Len(ret_iv) = 1

\* aes_encrypt of the empty buffer returned an IV and aes_decrypt ran with it
C17_Witness ==
    /\ cpc = "decrypted"
    /\ Len(data0) = 0
    /\ iv_opt = <<>>
    /\ Len(ret_iv) = 1
    /\ data = <<>>

\* ------------------------------------------------- the two backends
\* the keys and the states the backends are compared on: the values of
\* test_key_expansion and test_cipher, and others
BackendKeys ==
    {KEY, IV, U128_MAX, as_u128(0), as_u128(1)}
        \cup {SubSeq(CIPHERTEXT, 16 * b + 1, 16 * b + 16) : b \in 0..2}
BackendStates ==
    {KEY, IV, U128_MAX, as_u128(0), as_u128(1)}
        \cup {SubSeq(PLAINTEXT, 16 * b + 1, 16 * b + 16) : b \in 0..2}

BackendInputs ==
    /\ hw_aes \in BOOLEAN
    /\ overflow_checks = FALSE
    /\ key \in BackendKeys
    /\ iv_opt = <<>>
    /\ data0 \in BackendStates
    /\ data = data0
    /\ cpc = "start"
    /\ iv = <<>>
    /\ ret_iv = <<>>
    /\ round_keys = <<>>
    /\ blocks = <<>>
    /\ enc_counter = <<>>
    /\ bpos = <<>>
    /\ first_done = 0

\* let rks = key_expansion(KEY)
CallKeyExpansion ==
    /\ cpc = "start"
    /\ round_keys' = key_expansion(from_le_bytes(key))
    /\ cpc' = "expanded"
    /\ UNCHANGED <<hw_aes, overflow_checks, key, iv_opt, data0, data, iv,
                   ret_iv, blocks, enc_counter, bpos, first_done, poolVars>>

\* cipher(INPUT, &rks)
CallCipher ==
    /\ cpc = "expanded"
    /\ enc_counter' = <<cipher(from_le_bytes(data0), round_keys)>>
    /\ cpc' = "ciphered"
    /\ UNCHANGED <<hw_aes, overflow_checks, key, iv_opt, data0, data, iv,
                   ret_iv, round_keys, blocks, bpos, first_done, poolVars>>

InitBackend == PoolNew("idle") /\ BackendInputs

NextBackend == CallKeyExpansion \/ CallCipher

SpecBackend == InitBackend /\ [][NextBackend]_vars

\* C18: whichever backend the feature detection selects, the round keys are
\* the eleven both backends compute for the key, the first of them the key,
\* and the cipher output is the one both backends compute for the state and
\* the round keys.
C18_BackendsAgree ==
    /\ cpc \in {"expanded", "ciphered"} =>
           /\ round_keys = simd_key_expansion(from_le_bytes(key))
           /\ round_keys = sisd_key_expansion(from_le_bytes(key))
           /\ Len(round_keys) = 11
           /\ round_keys[1] = key
    /\ cpc = "ciphered" =>
           /\ enc_counter[1] = simd_cipher(from_le_bytes(data0), round_keys)
           /\ enc_counter[1] = sisd_cipher(from_le_bytes(data0), round_keys)

\* the portable backend was selected and gave the value test_cipher expects,
\* 0x3ad77bb40d7a3660a89ecaf32466ef97
C18_Witness ==
    /\ cpc = "ciphered"
    /\ ~hw_aes
    /\ key = KEY
    /\ data0 = SubSeq(PLAINTEXT, 1, 16)
    /\ enc_counter[1] = <<151, 239, 102, 36, 243, 202, 158, 168,
                          96, 54, 122, 13, 180, 123, 215, 58>>

\* ------------------------------------- fair scheduling, thunks that return
\* a worker whose thunks all return
WorkerStep(w) ==
    \/ WorkerLock(w)
    \/ WorkerRecv(w)
    \/ ThunkReturn(w)
    \/ WorkerFetchSub(w)
    \/ WorkerNotify(w)

\* the steps the client thread takes once it is inside assign_task,
\* await_all or the drop of the pool
ClientStep == AssignFetchAdd \/ AwaitLock \/ AwaitCheck \/ AwaitWait \/ DropSend \/ DropJoin

NextFair ==
    \/ Scoped
    \/ ScopeAssignTask
    \/ ScopeAwaitAll
    \/ BodyReturn
    \/ BodyPanic
    \/ PoolDrop
    \/ ClientStep
    \/ SpuriousWakeup
    \/ \E w \in Workers : WorkerStep(w)

\* Every thread that can take a step eventually takes one.  A spurious
\* wake-up is allowed and never promised.
SpecFair ==
    /\ Init
    /\ [][NextFair]_vars
    /\ WF_vars(ClientStep)
    /\ \A w \in Workers : WF_vars(WorkerStep(w))

\* C19: with thunks that return and fair scheduling every await_all and
\* every scope drop returns, no notify_one being missed: the client is never
\* blocked in the condition variable while no worker has a step left to
\* take, that is while nobody is left to notify it.
C19_NoLostWakeup ==
    ppc = "await_blocked" => \E w \in Workers : ENABLED WorkerStep(w)

\* C20: a worker holds the mutex of the receiver exactly while it is in its
\* recv, never while it runs a thunk (nor after it): a worker that is
\* running a thunk is not the holder of the mutex.
C20_MutexOnlyAcrossRecv ==
    \A w \in Workers : (reciever = w) <=> (wpc[w] = "recv")

\* two workers are running the thunks of two tasks at the same time
C20_Witness ==
    /\ wpc[1] = "run"
    /\ wpc[2] = "run"
    /\ wtask[1] # wtask[2]
    /\ tstate[wtask[1]] = "running"
    /\ tstate[wtask[2]] = "running"
    /\ reciever = 0

====
